---- MODULE Spec2Model ----
(***************************************************************************)
(* Model of the watermarking tools of this repository:                     *)
(*   src/second/watermark_app.py  (class Watermarker, the PyQt5 tool)      *)
(*   src/first/main.py            (add_watermark, the command-line tool)   *)
(*                                                                         *)
(* Strings that the code takes apart (paths, colour strings) are           *)
(* sequences of one-character strings, so that dirname, basename,          *)
(* splitext, lower, lstrip and slicing are computed as the code computes   *)
(* them.  None is <<>> for output_folder, current_index and current_image; *)
(* an index i is <<i>> and a decoded image is the path it was read from.   *)
(***************************************************************************)
EXTENDS Integers, Sequences, FiniteSets, TLC

VARIABLES
    image_paths,          \* self.image_paths: list of imported source paths
    current_index,        \* self.current_index: <<>> (None) or <<i>>, i counted from 0
    current_image,        \* self.current_image: <<>> (None) or the path it was decoded from
    output_folder,        \* self.output_folder: <<>> (None) or a directory
    override_original_cb, \* self.override_original_cb.isChecked()
    naming_combo,         \* self.naming_combo.currentText(): "keep" | "prefix" | "suffix"
    naming_input,         \* self.naming_input.text()
    pc,                   \* position of the export_images handler
    idx,                  \* images of the batch already attempted
    total,                \* local total of export_images
    trace,                \* per attempted image: source, outcome, output path, mode
    msg,                  \* the dialog the handler is showing
    reported,             \* the number the completion dialog shows
    template,             \* self.template: color, position, offset, image_watermark
    input_text,           \* self.input_text.text()
    font_combo,           \* self.font_combo.currentText()
    size_spin,            \* self.size_spin.value()
    opacity_slider,       \* self.opacity_slider.value()
    shadow_cb,            \* self.shadow_cb.isChecked()
    img_scale_slider,     \* self.img_scale_slider.value(), percent
    img_opacity_slider,   \* self.img_opacity_slider.value()
    data,                 \* the document _apply_template was given last
    base_size,            \* <<w, h>> of the image given to apply_watermark_to_pil
    txt_size,             \* <<txt_w, txt_h>> measured for the text
    wm_size,              \* <<wm.width, wm.height>> of the opened image watermark
    phase,                \* which function has run on the inputs above
    text_xy,              \* <<x, y>> of the text after line 407
    col,                  \* the fill colour of lines 416-419
    wm_target,            \* the size handed to wm.resize at line 431, <<>> if none
    wm_outcome,           \* what the try block of lines 424-439 meets on the watermark file
    out,                  \* what apply_watermark_to_pil gave its caller
    position,             \* main.py: the position the user typed
    pos                   \* main.py: pos after line 57

listVars   == <<image_paths, current_index, current_image>>
exportCfg  == <<output_folder, override_original_cb, naming_combo, naming_input>>
exportVars == <<pc, idx, total, trace, msg, reported>>
widgetVars == <<template, input_text, font_combo, size_spin, opacity_slider, shadow_cb,
                img_scale_slider, img_opacity_slider, data>>
renderVars == <<base_size, txt_size, wm_size, phase, text_xy, col, wm_target,
                wm_outcome, out, position, pos>>

(***************************************************************************)
(* Bounds.                                                                 *)
(***************************************************************************)
MaxImages == 2      \* images in the list
MaxCanvas == 12     \* width and height of a base image
MaxWm == 3          \* width and height of an image watermark
MaxColorLen == 7    \* characters of a colour string

(***************************************************************************)
(* Characters and path helpers (posixpath, as os.path on the tool's host). *)
(***************************************************************************)
\* str.lower() on the characters the model's file names use
Lower(c) ==
    CASE c = "J" -> "j" [] c = "P" -> "p" [] c = "G" -> "g"
      [] c = "N" -> "n" [] c = "E" -> "e" [] OTHER -> c

LowerStr(s) == [i \in 1..Len(s) |-> Lower(s[i])]

\* largest index of character c in s, 0 when absent (str.rfind + 1)
RFind(s, c) ==
    LET hits == {i \in 1..Len(s) : s[i] = c}
    IN  IF hits = {} THEN 0 ELSE CHOOSE i \in hits : \A j \in hits : j <= i

\* s[a..b] clipped to the string (Python slicing)
Slice(s, a, b) ==
    LET lo == IF a < 1 THEN 1 ELSE a
        hi == IF b > Len(s) THEN Len(s) ELSE b
    IN  IF lo > hi THEN <<>> ELSE SubSeq(s, lo, hi)

\* str.rstrip('/')
RECURSIVE RStripSlash(_)
RStripSlash(s) ==
    IF s # <<>> /\ s[Len(s)] = "/" THEN RStripSlash(SubSeq(s, 1, Len(s) - 1)) ELSE s

\* os.path.dirname(p)
Dirname(p) ==
    LET i    == RFind(p, "/")
        head == Slice(p, 1, i)
    IN  IF head # <<>> /\ (\E k \in 1..Len(head) : head[k] # "/")
        THEN RStripSlash(head) ELSE head

\* os.path.basename(p)
Basename(p) == Slice(p, RFind(p, "/") + 1, Len(p))

\* os.path.splitext(p): <<root, ext>>; leading dots of the name are no extension
Splitext(p) ==
    LET sep == RFind(p, "/")
        dot == RFind(p, ".")
    IN  IF dot > sep /\ (\E k \in (sep + 1)..(dot - 1) : p[k] # ".")
        THEN <<Slice(p, 1, dot - 1), Slice(p, dot, Len(p))>>
        ELSE <<p, <<>>>>

\* str.endswith(suffix)
EndsWith(s, suf) ==
    Len(suf) <= Len(s) /\ Slice(s, Len(s) - Len(suf) + 1, Len(s)) = suf

(***************************************************************************)
(* The files the user can import: a small file system.  Two files share    *)
(* the basename x.jpg in different directories; n.txt has no accepted      *)
(* extension.                                                              *)
(***************************************************************************)
DirA == <<"/", "a">>
DirB == <<"/", "b">>
DirO == <<"/", "o">>
Dirs == {DirA, DirB, DirO}

FileSystem ==
    << <<"/", "a", "/", "x", ".", "j", "p", "g">>,
       <<"/", "b", "/", "x", ".", "j", "p", "g">>,
       <<"/", "b", "/", "y", ".", "P", "N", "G">>,
       <<"/", "a", "/", "z", ".", "J", "P", "E", "G">>,
       <<"/", "b", "/", "n", ".", "t", "x", "t">> >>

Files == {FileSystem[i] : i \in 1..Len(FileSystem)}

\* os.path.isdir(p)
IsDir(p) == p \in Dirs

\* the files os.walk(p) yields, joined to their root, in listing order
Walk(p) ==
    SelectSeq(FileSystem, LAMBDA f : Len(f) > Len(p) + 1
                                     /\ SubSeq(f, 1, Len(p)) = p
                                     /\ f[Len(p) + 1] = "/")

\* os.path.join(a, b)
Join(a, b) ==
    IF b # <<>> /\ b[1] = "/" THEN b
    ELSE IF a = <<>> \/ a[Len(a)] = "/" THEN a \o b
    ELSE a \o <<"/">> \o b

accepted_ext ==
    { <<".", "j", "p", "g">>, <<".", "j", "p", "e", "g">>, <<".", "p", "n", "g">>,
      <<".", "b", "m", "p">>, <<".", "t", "i", "f">>, <<".", "t", "i", "f", "f">> }

\* p.lower().endswith(accepted_ext)
Accepted(p) == \E e \in accepted_ext : EndsWith(LowerStr(p), e)

\* Watermarker._add_image: append unless already listed
AddImage(paths, path) ==
    IF \E i \in 1..Len(paths) : paths[i] = path THEN paths ELSE Append(paths, path)

RECURSIVE AddAll(_, _)
AddAll(paths, fs) ==
    IF fs = <<>> THEN paths
    ELSE AddAll(IF Accepted(fs[1]) THEN AddImage(paths, fs[1]) ELSE paths, Tail(fs))

\* Watermarker.add_files(paths): directories are walked, files filtered by extension
RECURSIVE AddFilesTo(_, _)
AddFilesTo(paths, ps) ==
    IF ps = <<>> THEN paths
    ELSE AddFilesTo(AddAll(paths, IF IsDir(ps[1]) THEN Walk(ps[1]) ELSE <<ps[1]>>),
                    Tail(ps))

\* what the import dialog or a drop can hand to add_files
Selections ==
    {<<f>> : f \in Files} \cup {<<d>> : d \in Dirs}
    \cup {<<FileSystem[2], FileSystem[1]>>}

(***************************************************************************)
(* Template values.                                                        *)
(***************************************************************************)
\* '#FFFFFF', the colour of line 85
White == <<"#", "F", "F", "F", "F", "F", "F">>

\* no document has been loaded
NoDocument == [has |-> {}, val |-> <<>>]

(***************************************************************************)
(* export_images, lines 468-531.                                           *)
(***************************************************************************)
\* the text of naming_input the user may type
NamingInputs == { <<"w", "m", "_">>, <<"_", "w">> }

\* a pre-check that looks at the first source only
SourceDirCollisionFirstOnly(paths, folder, override) ==
    paths # <<>> /\ Dirname(paths[1]) = folder /\ ~override

\* lines 476-479: some source lies in the export folder and the override is unset
SourceDirCollision(paths, folder, override) ==
    \E i \in 1..Len(paths) : Dirname(paths[i]) = folder /\ ~override

\* lines 510-511: base_name and its (name, ext) split, for each file of the
\* file system (tabulated once: the split does not depend on the state)
NameExt == [f \in Files |-> Splitext(Basename(f))]

\* a naming that puts the text of naming_input on the other side of the name
NewNameSwapped(naming, add, p) ==
    IF naming = "keep" THEN NameExt[p][1] \o NameExt[p][2]
    ELSE IF naming = "prefix" THEN NameExt[p][1] \o add \o NameExt[p][2]
    ELSE add \o NameExt[p][1] \o NameExt[p][2]

\* lines 512-517: the output file name
NewName(naming, add, p) ==
    IF naming = "keep" THEN NameExt[p][1] \o NameExt[p][2]
    ELSE IF naming = "prefix" THEN add \o NameExt[p][1] \o NameExt[p][2]
    ELSE NameExt[p][1] \o add \o NameExt[p][2]

\* line 520
OutPath(folder, naming, add, p) == Join(folder, NewName(naming, add, p))

\* the extension test without lower()
IsJpegExtCaseSensitive(ext) ==
    ext \in { <<".", "j", "p", "g">>, <<".", "j", "p", "e", "g">> }

\* line 522: ext.lower() in ('.jpg', '.jpeg')
IsJpegExt(ext) ==
    LowerStr(ext) \in { <<".", "j", "p", "g">>, <<".", "j", "p", "e", "g">> }

\* lines 522-527: JPEG targets are flattened on white (RGB), others keep alpha
SavedMode(p) ==
    IF IsJpegExt(NameExt[p][2]) THEN "RGB" ELSE "RGBA"

\* what can happen to one image inside the try block of lines 487-530
Outcomes == {"ok", "decode_error", "resize_error", "write_error"}

\* an except clause that re-raises, ending the handler
AfterFailureHalts == "aborted"

\* lines 529-530: the except clause prints and the loop goes on
AfterFailure == "loop"

\* line 531: the number put in the completion dialog
ReportedCount(n_total, tr) == n_total

\* __init__, lines 73-75 and 140-145, 209: the list and the export settings
InitExport ==
    /\ image_paths = <<>>
    /\ current_index = <<>>
    /\ current_image = <<>>
    /\ output_folder = <<>>
    /\ override_original_cb = FALSE
    /\ naming_combo = "keep"
    /\ naming_input = <<"w", "m", "_">>
    /\ pc = "idle"
    /\ idx = 0
    /\ total = 0
    /\ trace = <<>>
    /\ msg = "none"
    /\ reported = 0

\* __init__, lines 78-94 and 109-134: the template and the widgets showing it
InitWidgets ==
    /\ template = [color |-> White, position |-> "center", offset |-> <<0, 0>>,
                   image_watermark |-> ""]
    /\ input_text = "watermark"
    /\ font_combo = "Arial"
    /\ size_spin = 36
    /\ opacity_slider = 70
    /\ shadow_cb = TRUE
    /\ img_scale_slider = 25
    /\ img_opacity_slider = 80
    /\ data = NoDocument

\* apply_watermark_to_pil has not returned
NoOutput == [raised |-> FALSE, layers |-> <<>>]

\* nothing has been rendered
InitRender ==
    /\ base_size = <<0, 0>>
    /\ txt_size = <<0, 0>>
    /\ wm_size = <<0, 0>>
    /\ phase = "gui"
    /\ text_xy = <<0, 0>>
    /\ col = <<>>
    /\ wm_target = <<>>
    /\ wm_outcome = "ok"
    /\ out = NoOutput
    /\ position = ""
    /\ pos = <<>>

Init == InitExport /\ InitWidgets /\ InitRender

\* add_files, by the import dialog or a drop
AddFiles ==
    /\ pc = "idle"
    /\ \E ps \in Selections :
          /\ Len(AddFilesTo(image_paths, ps)) <= MaxImages
          /\ image_paths' = AddFilesTo(image_paths, ps)
    /\ UNCHANGED <<current_index, current_image>>
    /\ UNCHANGED <<exportCfg, exportVars>>
    /\ UNCHANGED <<widgetVars, renderVars>>

\* clear_list, lines 269-272: the list and the list widget are emptied, the
\* preview pixmap is blanked; current_index and current_image are not assigned
ClearList ==
    /\ pc = "idle"
    /\ image_paths' = <<>>
    /\ UNCHANGED <<current_index, current_image>>
    /\ UNCHANGED <<exportCfg, exportVars>>
    /\ UNCHANGED <<widgetVars, renderVars>>

\* choose_output_folder: a cancelled dialog changes nothing
ChooseOutputFolder ==
    /\ pc = "idle"
    /\ \E folder \in Dirs : output_folder' = folder
    /\ UNCHANGED <<listVars, override_original_cb, naming_combo, naming_input, exportVars>>
    /\ UNCHANGED <<widgetVars, renderVars>>

ToggleOverride ==
    /\ pc = "idle"
    /\ override_original_cb' = ~override_original_cb
    /\ UNCHANGED <<listVars, output_folder, naming_combo, naming_input, exportVars>>
    /\ UNCHANGED <<widgetVars, renderVars>>

SetNaming ==
    /\ pc = "idle"
    /\ \E n \in {"keep", "prefix", "suffix"} : naming_combo' = n
    /\ \E a \in NamingInputs : naming_input' = a
    /\ UNCHANGED <<listVars, output_folder, override_original_cb, exportVars>>
    /\ UNCHANGED <<widgetVars, renderVars>>

\* export_images up to the loop, lines 469-485
ExportBegin ==
    /\ pc = "idle"
    /\ IF image_paths = <<>>
       THEN pc' = "refused" /\ msg' = "no_images" /\ UNCHANGED <<idx, total, trace>>
       ELSE IF output_folder = <<>>
       THEN pc' = "refused" /\ msg' = "no_folder" /\ UNCHANGED <<idx, total, trace>>
       ELSE IF SourceDirCollision(image_paths, output_folder, override_original_cb)
       THEN pc' = "refused" /\ msg' = "unsafe_target" /\ UNCHANGED <<idx, total, trace>>
       ELSE /\ pc' = "loop"
            /\ total' = Len(image_paths)
            /\ idx' = 0
            /\ trace' = <<>>
            /\ msg' = msg
    /\ UNCHANGED <<listVars, exportCfg, reported>>
    /\ UNCHANGED <<widgetVars, renderVars>>

\* one iteration of the loop, lines 486-530: decoding, watermarking and
\* resizing enter by their outcome; a failure at any of them, or at the write,
\* leaves no file and is caught by the except clause
ExportImage ==
    /\ pc = "loop"
    /\ idx < total
    /\ LET p == image_paths[idx + 1] IN
       \E outcome \in Outcomes :
          /\ trace' = Append(trace,
                 IF outcome = "ok"
                 THEN [src |-> p, result |-> outcome,
                       out_path |-> OutPath(output_folder, naming_combo, naming_input, p),
                       mode |-> SavedMode(p)]
                 ELSE [src |-> p, result |-> outcome, out_path |-> <<>>, mode |-> "none"])
          /\ idx' = idx + 1
          /\ pc' = IF outcome = "ok" THEN "loop" ELSE AfterFailure
    /\ UNCHANGED <<listVars, exportCfg, total, msg, reported>>
    /\ UNCHANGED <<widgetVars, renderVars>>

\* line 531: the completion dialog
ExportEnd ==
    /\ pc = "loop"
    /\ idx = total
    /\ pc' = "done"
    /\ msg' = "export_done"
    /\ reported' = ReportedCount(total, trace)
    /\ UNCHANGED <<listVars, exportCfg, idx, total, trace>>
    /\ UNCHANGED <<widgetVars, renderVars>>

\* the dialog is dismissed and export_images returns: its locals are gone
ExportReturn ==
    /\ pc \in {"refused", "done"}
    /\ pc' = "idle"
    /\ msg' = "none"
    /\ idx' = 0
    /\ total' = 0
    /\ trace' = <<>>
    /\ reported' = 0
    /\ UNCHANGED <<listVars, exportCfg>>
    /\ UNCHANGED <<widgetVars, renderVars>>

vars == <<listVars, exportCfg, exportVars, widgetVars, renderVars>>

Next ==
    \/ AddFiles
    \/ ClearList
    \/ ChooseOutputFolder
    \/ ToggleOverride
    \/ SetNaming
    \/ ExportBegin
    \/ ExportImage
    \/ ExportEnd
    \/ ExportReturn

Spec == Init /\ [][Next]_vars

\* the handler runs to its end once started: the loop and the dialog are not interruptible
FairSpec == Spec /\ WF_vars(ExportImage) /\ WF_vars(ExportEnd)

(***************************************************************************)
(* The preview: on_item_clicked, load_current_image and update_preview,    *)
(* lines 274-288 and 446-465.                                              *)
(***************************************************************************)
\* load_current_image, lines 280-288: current_image after the call; decodes
\* says whether Image.open(path).convert('RGBA') succeeds
LoadCurrentImage(paths, index, image, decodes) ==
    IF index = <<>> THEN image
    ELSE IF decodes THEN paths[index[1] + 1]
    ELSE <<>>

\* update_preview, lines 446-455: with no current image the first entry of a
\* non-empty list is selected and loaded; what follows renders to the label
UpdatePreviewState(paths, index, image, decodes) ==
    IF image = <<>> /\ paths # <<>>
    THEN [index |-> <<0>>, image |-> LoadCurrentImage(paths, <<0>>, image, decodes)]
    ELSE [index |-> index, image |-> image]

\* on_item_clicked, lines 274-278: the list widget holds one item per entry of
\* image_paths; the clicked entry is selected and loaded, then update_preview runs
OnItemClicked ==
    /\ pc = "idle"
    /\ \E i \in 1..Len(image_paths), decodes \in BOOLEAN, first_decodes \in BOOLEAN :
          LET loaded == LoadCurrentImage(image_paths, <<i - 1>>, current_image, decodes)
              after  == UpdatePreviewState(image_paths, <<i - 1>>, loaded, first_decodes)
          IN  /\ current_index' = after.index
              /\ current_image' = after.image
    /\ UNCHANGED <<image_paths, exportCfg, exportVars>>
    /\ UNCHANGED <<widgetVars, renderVars>>

\* update_preview, called by the signals of lines 200-205
UpdatePreview ==
    /\ pc = "idle"
    /\ \E decodes \in BOOLEAN :
          LET after == UpdatePreviewState(image_paths, current_index, current_image, decodes)
          IN  /\ current_index' = after.index
              /\ current_image' = after.image
    /\ UNCHANGED <<image_paths, exportCfg, exportVars>>
    /\ UNCHANGED <<widgetVars, renderVars>>

NextList ==
    \/ AddFiles
    \/ ClearList
    \/ OnItemClicked
    \/ UpdatePreview

SpecList == Init /\ [][NextList]_vars

(***************************************************************************)
(* apply_watermark_to_pil, lines 368-444: text placement, fill colour and  *)
(* the size the image watermark is resampled to.                           *)
(***************************************************************************)
\* line 397
margin == 10

\* line 123: the nine anchors the position buttons set
pos_keys ==
    {"top-left", "top", "top-right", "left", "center", "right",
     "bottom-left", "bottom", "bottom-right"}

\* a placement whose right and bottom anchors add the margin instead of subtracting it
TextPositionMarginSign(w, h, txt_w, txt_h, pos_key, offsets) ==
    LET xl == margin
        xc == (w - txt_w) \div 2
        xr == w - txt_w + margin
        yt == margin
        yc == (h - txt_h) \div 2
        yb == h - txt_h + margin
        xy == CASE pos_key = "top-left"     -> <<xl, yt>>
                [] pos_key = "top"          -> <<xc, yt>>
                [] pos_key = "top-right"    -> <<xr, yt>>
                [] pos_key = "left"         -> <<xl, yc>>
                [] pos_key = "center"       -> <<xc, yc>>
                [] pos_key = "right"        -> <<xr, yc>>
                [] pos_key = "bottom-left"  -> <<xl, yb>>
                [] pos_key = "bottom"       -> <<xc, yb>>
                [] pos_key = "bottom-right" -> <<xr, yb>>
                [] OTHER                    -> <<0, 0>>
    IN  <<xy[1] + offsets[1], xy[2] + offsets[2]>>

\* a placement with a final else clause that places at bottom-right
TextPositionElseBottomRight(w, h, txt_w, txt_h, pos_key, offsets) ==
    LET xl == margin
        xc == (w - txt_w) \div 2
        xr == w - txt_w - margin
        yt == margin
        yc == (h - txt_h) \div 2
        yb == h - txt_h - margin
        xy == CASE pos_key = "top-left"     -> <<xl, yt>>
                [] pos_key = "top"          -> <<xc, yt>>
                [] pos_key = "top-right"    -> <<xr, yt>>
                [] pos_key = "left"         -> <<xl, yc>>
                [] pos_key = "center"       -> <<xc, yc>>
                [] pos_key = "right"        -> <<xr, yc>>
                [] pos_key = "bottom-left"  -> <<xl, yb>>
                [] pos_key = "bottom"       -> <<xc, yb>>
                [] OTHER                    -> <<xr, yb>>
    IN  <<xy[1] + offsets[1], xy[2] + offsets[2]>>

\* lines 396-407: x, y start at 0, the if/elif chain has no else, the offset is added
TextPosition(w, h, txt_w, txt_h, pos_key, offsets) ==
    LET xl == margin
        xc == (w - txt_w) \div 2
        xr == w - txt_w - margin
        yt == margin
        yc == (h - txt_h) \div 2
        yb == h - txt_h - margin
        xy == CASE pos_key = "top-left"     -> <<xl, yt>>
                [] pos_key = "top"          -> <<xc, yt>>
                [] pos_key = "top-right"    -> <<xr, yt>>
                [] pos_key = "left"         -> <<xl, yc>>
                [] pos_key = "center"       -> <<xc, yc>>
                [] pos_key = "right"        -> <<xr, yc>>
                [] pos_key = "bottom-left"  -> <<xl, yb>>
                [] pos_key = "bottom"       -> <<xc, yb>>
                [] pos_key = "bottom-right" -> <<xr, yb>>
                [] OTHER                    -> <<0, 0>>
    IN  <<xy[1] + offsets[1], xy[2] + offsets[2]>>

\* the value of a hexadecimal digit
HexDigits ==
    {"0", "1", "2", "3", "4", "5", "6", "7", "8", "9",
     "a", "b", "c", "d", "e", "f", "A", "B", "C", "D", "E", "F"}

HexVal(c) ==
    CASE c = "0" -> 0 [] c = "1" -> 1 [] c = "2" -> 2 [] c = "3" -> 3 [] c = "4" -> 4
      [] c = "5" -> 5 [] c = "6" -> 6 [] c = "7" -> 7 [] c = "8" -> 8 [] c = "9" -> 9
      [] c \in {"a", "A"} -> 10 [] c \in {"b", "B"} -> 11 [] c \in {"c", "C"} -> 12
      [] c \in {"d", "D"} -> 13 [] c \in {"e", "E"} -> 14 [] c \in {"f", "F"} -> 15

\* int(s, 16) for the slices of at most two characters line 417 takes:
\* [ok |-> FALSE] stands for ValueError.  Like Python's int, it accepts a sign
\* or blank before the digit and a blank after it.
IntBase16(s) ==
    IF Len(s) = 1 /\ s[1] \in HexDigits
        THEN [ok |-> TRUE, v |-> HexVal(s[1])]
    ELSE IF Len(s) = 2 /\ s[1] \in HexDigits /\ s[2] \in HexDigits
        THEN [ok |-> TRUE, v |-> 16 * HexVal(s[1]) + HexVal(s[2])]
    ELSE IF Len(s) = 2 /\ s[1] \in {"+", " "} /\ s[2] \in HexDigits
        THEN [ok |-> TRUE, v |-> HexVal(s[2])]
    ELSE IF Len(s) = 2 /\ s[1] = "-" /\ s[2] \in HexDigits
        THEN [ok |-> TRUE, v |-> 0 - HexVal(s[2])]
    ELSE IF Len(s) = 2 /\ s[1] \in HexDigits /\ s[2] = " "
        THEN [ok |-> TRUE, v |-> HexVal(s[1])]
    ELSE [ok |-> FALSE, v |-> 0]

\* str.lstrip('#'): every leading '#' goes
RECURSIVE LStripHash(_)
LStripHash(s) ==
    IF s # <<>> /\ s[1] = "#" THEN LStripHash(Tail(s)) ELSE s

\* lines 416-419: the fill colour, white when a slice does not parse
ParseColor(color, opacity) ==
    LET t     == LStripHash(color)
        r     == IntBase16(Slice(t, 1, 2))
        g     == IntBase16(Slice(t, 3, 4))
        b     == IntBase16(Slice(t, 5, 6))
        alpha == (255 * opacity) \div 100
    IN  IF r.ok /\ g.ok /\ b.ok THEN <<r.v, g.v, b.v, alpha>>
        ELSE <<255, 255, 255, alpha>>

\* lines 426-430: the size handed to wm.resize
WmTarget(w, h, wm_w, wm_h, slider) ==
    LET percent == IF slider < 1 THEN 1 ELSE slider
        new_w   == (wm_w * percent) \div 100
        new_h   == (wm_h * percent) \div 100
    IN  IF new_w <= 0 \/ new_h <= 0 THEN <<w \div 4, h \div 4>> ELSE <<new_w, new_h>>

\* what the try block of lines 424-439 can meet: the file opens and decodes,
\* or Image.open / convert, resize, the alpha mask, or paste raises
WmOutcomes == {"ok", "open_error", "resize_error", "alpha_error", "paste_error"}

\* an except clause that re-raises to the caller
WmFailureRaises == "raised"

\* lines 440-441: the except clause prints and compositing goes on
WmFailure == "omitted"

\* lines 423-441: whether the image watermark reaches the overlay.  Every
\* failure comes before or at the paste of line 439, which is the only write
\* to the overlay; Image.resize raises ValueError for a zero-size target.
WmPasted(has_wm, outcome, target) ==
    has_wm /\ outcome = "ok" /\ target[1] > 0 /\ target[2] > 0

\* lines 443-444 and what leads to them: the layers of the image returned (the
\* text is drawn at line 420 before the image watermark is tried), or the
\* exception that reaches the caller
Composite(has_wm, outcome, target) ==
    IF has_wm /\ ~WmPasted(has_wm, outcome, target) /\ WmFailure = "raised"
    THEN [raised |-> TRUE, layers |-> <<>>]
    ELSE [raised |-> FALSE,
          layers |-> <<"base", "text">> \o
                     (IF WmPasted(has_wm, outcome, target) THEN <<"image">> ELSE <<>>)]

\* apply_watermark_to_pil on the inputs drawn at the start
ApplyWatermark ==
    /\ phase = "input"
    /\ phase' = "app"
    /\ text_xy' = TextPosition(base_size[1], base_size[2], txt_size[1], txt_size[2],
                               template.position, template.offset)
    /\ col' = ParseColor(template.color, opacity_slider)
    /\ wm_target' = IF template.image_watermark # "" /\ wm_outcome # "open_error"
                    THEN WmTarget(base_size[1], base_size[2], wm_size[1], wm_size[2],
                                  img_scale_slider)
                    ELSE <<>>
    /\ out' = Composite(template.image_watermark # "", wm_outcome, wm_target')
    /\ UNCHANGED <<listVars, exportCfg, exportVars, widgetVars>>
    /\ UNCHANGED <<base_size, txt_size, wm_size, wm_outcome, position, pos>>

(***************************************************************************)
(* src/first/main.py, add_watermark: the position of the date text.        *)
(***************************************************************************)
\* lines 52-57: pos_map.get(position, pos_map["right_bottom"])
PosMapGet(img_w, img_h, text_width, text_height, p) ==
    CASE p = "left_top" -> <<10, 10>>
      [] p = "center"   -> <<(img_w - text_width) \div 2, (img_h - text_height) \div 2>>
      [] OTHER          -> <<img_w - text_width - 10, img_h - text_height - 10>>

AddWatermark ==
    /\ phase = "input"
    /\ phase' = "cli"
    /\ pos' = PosMapGet(base_size[1], base_size[2], txt_size[1], txt_size[2], position)
    /\ UNCHANGED <<listVars, exportCfg, exportVars, widgetVars>>
    /\ UNCHANGED <<base_size, txt_size, wm_size, text_xy, col, wm_target, wm_outcome, out,
                   position>>

(***************************************************************************)
(* Specifications of the rendering functions: the inputs are drawn from    *)
(* bounded sets, then the function runs once.                              *)
(***************************************************************************)
\* the position strings tried: the nine anchors, main.py's keys, and 'custom'
\* (line 88: "nine-grid keys or custom")
PositionInputs == pos_keys \cup {"custom", "left_top", "right_bottom"}

CanvasSizes == (1..MaxCanvas) \X (1..MaxCanvas)

InitLayout ==
    /\ InitExport
    /\ \E k \in PositionInputs :
          /\ template = [color |-> White, position |-> k, offset |-> <<0, 0>>,
                         image_watermark |-> ""]
          /\ position = k
    /\ input_text = "watermark" /\ font_combo = "Arial" /\ size_spin = 36
    /\ opacity_slider = 70 /\ shadow_cb = TRUE
    /\ img_scale_slider = 25 /\ img_opacity_slider = 80 /\ data = NoDocument
    /\ base_size \in CanvasSizes
    /\ txt_size \in (0..base_size[1]) \X (0..base_size[2])
    /\ wm_size = <<0, 0>>
    /\ phase = "input"
    /\ text_xy = <<0, 0>> /\ col = <<>> /\ wm_target = <<>> /\ pos = <<>>
    /\ wm_outcome = "ok" /\ out = NoOutput

NextLayout == ApplyWatermark \/ AddWatermark

SpecLayout == InitLayout /\ [][NextLayout]_vars

\* the characters of the colour strings tried
ColorChars == {"#", "1", "f", "g", "+"}

ColorStrings == UNION {[1..n -> ColorChars] : n \in 0..MaxColorLen}

InitColor ==
    /\ InitExport
    /\ \E c \in ColorStrings :
          template = [color |-> c, position |-> "center", offset |-> <<0, 0>>,
                      image_watermark |-> ""]
    /\ input_text = "watermark" /\ font_combo = "Arial" /\ size_spin = 36
    /\ opacity_slider = 70 /\ shadow_cb = TRUE
    /\ img_scale_slider = 25 /\ img_opacity_slider = 80 /\ data = NoDocument
    /\ base_size = <<MaxCanvas, MaxCanvas>>
    /\ txt_size = <<1, 1>>
    /\ wm_size = <<0, 0>>
    /\ phase = "input"
    /\ text_xy = <<0, 0>> /\ col = <<>> /\ wm_target = <<>>
    /\ wm_outcome = "ok" /\ out = NoOutput
    /\ position = "" /\ pos = <<>>

NextColor == ApplyWatermark

SpecColor == InitColor /\ [][NextColor]_vars

\* the values of img_scale_slider tried (its range is 1..500, line 133)
ScaleSettings == {1, 25, 50, 100, 500}

InitScale ==
    /\ InitExport
    /\ template = [color |-> White, position |-> "center", offset |-> <<0, 0>>,
                   image_watermark |-> "wm.png"]
    /\ input_text = "watermark" /\ font_combo = "Arial" /\ size_spin = 36
    /\ opacity_slider = 70 /\ shadow_cb = TRUE
    /\ img_scale_slider \in ScaleSettings
    /\ img_opacity_slider = 80 /\ data = NoDocument
    /\ base_size \in CanvasSizes
    /\ txt_size = <<0, 0>>
    /\ wm_size \in (1..MaxWm) \X (1..MaxWm)
    /\ phase = "input"
    /\ text_xy = <<0, 0>> /\ col = <<>> /\ wm_target = <<>>
    /\ wm_outcome = "ok" /\ out = NoOutput
    /\ position = "" /\ pos = <<>>

NextScale == ApplyWatermark

SpecScale == InitScale /\ [][NextScale]_vars

\* an image watermark is configured and its file may fail at any step
InitWmLoad ==
    /\ InitExport
    /\ template = [color |-> White, position |-> "center", offset |-> <<0, 0>>,
                   image_watermark |-> "wm.png"]
    /\ input_text = "watermark" /\ font_combo = "Arial" /\ size_spin = 36
    /\ opacity_slider = 70 /\ shadow_cb = TRUE
    /\ img_scale_slider \in ScaleSettings
    /\ img_opacity_slider = 80 /\ data = NoDocument
    /\ base_size \in CanvasSizes
    /\ txt_size = <<0, 0>>
    /\ wm_size \in (1..MaxWm) \X (1..MaxWm)
    /\ phase = "input"
    /\ text_xy = <<0, 0>> /\ col = <<>> /\ wm_target = <<>>
    /\ wm_outcome \in WmOutcomes /\ out = NoOutput
    /\ position = "" /\ pos = <<>>

NextWmLoad == ApplyWatermark

SpecWmLoad == InitWmLoad /\ [][NextWmLoad]_vars

(***************************************************************************)
(* The template: the handlers that edit it and _apply_template,            *)
(* lines 291-313 and 354-365.                                              *)
(***************************************************************************)
\* '#0000ff', a colour QColorDialog can return (QColor.name() is lower case)
Blue == <<"#", "0", "0", "0", "0", "f", "f">>

\* the families _populate_fonts put in font_combo
FontFamilies == {"Arial", "Courier"}

\* QSpinBox.setValue and QSlider.setValue keep the value inside the widget's range
Clamp(v, lo, hi) == IF v < lo THEN lo ELSE IF v > hi THEN hi ELSE v

\* int(x * 100) for x = n / 100.0 with 0 <= n <= 100: the double product falls
\* just below n for n = 29, 57, 58 and int() truncates it
IntTimes100(n) == IF n \in {29, 57, 58} THEN n - 1 ELSE n

\* the fields of the documents tried, of those _apply_template reads (the
\* documents tried hold no font_family: the font combo keeps its family)
DocFields ==
    {"text", "font_size", "opacity", "shadow",
     "color", "position", "image_watermark", "image_scale", "image_opacity"}

\* the value a document gives a field it holds (image_scale in hundredths);
\* a field the document lacks is not read
DocValue ==
    [text |-> "hello", font_size |-> 72, opacity |-> 10,
     shadow |-> FALSE, color |-> Blue, position |-> "bottom-right",
     image_watermark |-> "logo.png", image_scale |-> 50, image_opacity |-> 40]

\* the documents json.load can return: any subset of the fields
Documents == {[has |-> H, val |-> DocValue] : H \in SUBSET DocFields}

\* dict.get(key, default)
Get(d, key, default) == IF key \in d.has THEN d.val[key] ELSE default

\* choose_color, lines 291-295
ChooseColor ==
    /\ phase = "gui"
    /\ \E c \in {White, Blue} : template' = [template EXCEPT !.color = c]
    /\ UNCHANGED <<phase, data>>
    /\ UNCHANGED <<input_text, font_combo, size_spin, opacity_slider, shadow_cb,
                   img_scale_slider, img_opacity_slider>>
    /\ UNCHANGED <<listVars, exportCfg, exportVars>>
    /\ UNCHANGED <<base_size, txt_size, wm_size, text_xy, col, wm_target, wm_outcome, out,
                   position, pos>>

\* set_position, lines 311-313
SetPosition ==
    /\ phase = "gui"
    /\ \E k \in {"center", "bottom-right"} : template' = [template EXCEPT !.position = k]
    /\ UNCHANGED <<phase, data>>
    /\ UNCHANGED <<input_text, font_combo, size_spin, opacity_slider, shadow_cb,
                   img_scale_slider, img_opacity_slider>>
    /\ UNCHANGED <<listVars, exportCfg, exportVars>>
    /\ UNCHANGED <<base_size, txt_size, wm_size, text_xy, col, wm_target, wm_outcome, out,
                   position, pos>>

\* choose_watermark_image, lines 297-302
ChooseWatermarkImage ==
    /\ template.image_watermark = ""
    /\ phase = "gui"
    /\ template' = [template EXCEPT !.image_watermark = "logo.png"]
    /\ UNCHANGED <<phase, data>>
    /\ UNCHANGED <<input_text, font_combo, size_spin, opacity_slider, shadow_cb,
                   img_scale_slider, img_opacity_slider>>
    /\ UNCHANGED <<listVars, exportCfg, exportVars>>
    /\ UNCHANGED <<base_size, txt_size, wm_size, text_xy, col, wm_target, wm_outcome, out,
                   position, pos>>

\* the user edits one of the widgets of lines 109-134
EditWidget ==
    /\ phase = "gui"
    /\ \/ /\ \E t \in {"watermark", "hello"} : input_text' = t
          /\ UNCHANGED <<font_combo, size_spin, opacity_slider, shadow_cb,
                         img_scale_slider, img_opacity_slider>>
       \/ /\ \E v \in {36, 72} : size_spin' = Clamp(v, 8, 300)
          /\ UNCHANGED <<input_text, font_combo, opacity_slider, shadow_cb,
                         img_scale_slider, img_opacity_slider>>
       \/ /\ \E v \in {70, 10} : opacity_slider' = Clamp(v, 0, 100)
          /\ UNCHANGED <<input_text, font_combo, size_spin, shadow_cb,
                         img_scale_slider, img_opacity_slider>>
       \/ /\ shadow_cb' = ~shadow_cb
          /\ UNCHANGED <<input_text, font_combo, size_spin, opacity_slider,
                         img_scale_slider, img_opacity_slider>>
       \/ /\ \E v \in {25, 50} : img_scale_slider' = Clamp(v, 1, 500)
          /\ UNCHANGED <<input_text, font_combo, size_spin, opacity_slider, shadow_cb,
                         img_opacity_slider>>
       \/ /\ \E v \in {80, 40} : img_opacity_slider' = Clamp(v, 0, 100)
          /\ UNCHANGED <<input_text, font_combo, size_spin, opacity_slider, shadow_cb,
                         img_scale_slider>>
    /\ UNCHANGED <<phase, data>>
    /\ UNCHANGED template
    /\ UNCHANGED <<listVars, exportCfg, exportVars>>
    /\ UNCHANGED <<base_size, txt_size, wm_size, text_xy, col, wm_target, wm_outcome, out,
                   position, pos>>

\* load_template_dialog with _apply_template(data), lines 328-337 and 354-365
ApplyTemplate ==
    /\ phase = "gui"
    /\ \E d \in Documents :
          /\ data' = d
          /\ input_text' = Get(d, "text", "")
          /\ font_combo' = IF Get(d, "font_family", font_combo) \in FontFamilies
                           THEN Get(d, "font_family", font_combo) ELSE font_combo
          /\ size_spin' = Clamp(Get(d, "font_size", size_spin), 8, 300)
          /\ opacity_slider' = Clamp(Get(d, "opacity", opacity_slider), 0, 100)
          /\ shadow_cb' = Get(d, "shadow", TRUE)
          /\ template' = IF Get(d, "image_watermark", "") # ""
                         THEN [template EXCEPT
                                  !.image_watermark = Get(d, "image_watermark", "")]
                         ELSE template
          /\ img_scale_slider' = Clamp(IntTimes100(Get(d, "image_scale", 25)), 1, 500)
          /\ img_opacity_slider' = Clamp(Get(d, "image_opacity", 80), 0, 100)
    /\ phase' = "loaded"
    /\ UNCHANGED <<listVars, exportCfg, exportVars>>
    /\ UNCHANGED <<base_size, txt_size, wm_size, text_xy, col, wm_target, wm_outcome, out,
                   position, pos>>

\* the dialog of line 335 is dismissed and load_template_dialog returns
LoadReturn ==
    /\ phase = "loaded"
    /\ phase' = "gui"
    /\ data' = NoDocument
    /\ UNCHANGED <<template, input_text, font_combo, size_spin, opacity_slider,
                   shadow_cb, img_scale_slider, img_opacity_slider>>
    /\ UNCHANGED <<listVars, exportCfg, exportVars>>
    /\ UNCHANGED <<base_size, txt_size, wm_size, text_xy, col, wm_target, wm_outcome, out,
                   position, pos>>

NextTemplate ==
    \/ ChooseColor
    \/ SetPosition
    \/ ChooseWatermarkImage
    \/ EditWidget
    \/ ApplyTemplate
    \/ LoadReturn

SpecTemplate == Init /\ [][NextTemplate]_vars

(***************************************************************************)
(* Claims on the batch export.                                             *)
(***************************************************************************)
OkIndexes == {i \in 1..Len(trace) : trace[i].result = "ok"}
FailedIndexes == {i \in 1..Len(trace) : trace[i].result # "ok"}
WrittenPaths == {trace[i].out_path : i \in OkIndexes}

\* the export folder is the directory of some imported source image
UnsafeTarget ==
    \E i \in 1..Len(image_paths) : Dirname(image_paths[i]) = output_folder

\* C1: when the export folder is the directory of any source image and the
\* override flag is unset, export_images never enters its per-image loop and
\* writes no file, wherever the colliding image stands in the list.
C1_RefusedBeforeLoop ==
    (UnsafeTarget /\ ~override_original_cb)
        => (pc \in {"idle", "refused"} /\ trace = <<>>)

\* the batch was refused for a collision that is not at the head of the list
C1_Witness ==
    /\ pc = "refused"
    /\ msg = "unsafe_target"
    /\ Len(image_paths) = 2
    /\ Dirname(image_paths[1]) # output_folder
    /\ Dirname(image_paths[2]) = output_folder
    /\ trace = <<>>

\* C2: a batch that has entered its loop always reaches the completion dialog,
\* and by then every entry of image_paths has been attempted, in order,
\* whatever failed on the way.
C2_BatchCompletes ==
    (pc = "loop") ~>
        (/\ pc = "done"
         /\ Len(trace) = Len(image_paths)
         /\ \A i \in 1..Len(trace) : trace[i].src = image_paths[i])

\* a batch completed whose first image failed and whose second was written
C2_Witness ==
    /\ pc = "done"
    /\ Len(trace) = 2
    /\ trace[1].result = "write_error"
    /\ trace[2].result = "ok"

\* C3: the count the completion dialog shows is the number of images written;
\* failed images are not counted.
C3_CountIsWritten ==
    pc = "done" => reported = Cardinality(OkIndexes)

\* C4: a batch without failures leaves one output file per source image:
\* distinct sources get distinct output paths.
C4_OneFilePerSource ==
    (pc = "done" /\ FailedIndexes = {})
        => Cardinality(WrittenPaths) = Len(image_paths)

\* the source name ends in .jpg or .jpeg, in any letter case
JpegTarget(p) ==
    \/ LowerStr(Slice(p, Len(p) - 3, Len(p))) = <<".", "j", "p", "g">>
    \/ LowerStr(Slice(p, Len(p) - 4, Len(p))) = <<".", "j", "p", "e", "g">>

\* C9: every image written to a JPEG target is written flattened (RGB, no
\* alpha channel); every other written image keeps its alpha channel (RGBA).
C9_JpegFlattened ==
    \A i \in OkIndexes :
        trace[i].mode = IF JpegTarget(trace[i].src) THEN "RGB" ELSE "RGBA"

\* a batch wrote an upper-case .JPEG source flattened and a .PNG source with alpha
C9_Witness ==
    /\ \E i \in OkIndexes :
          /\ EndsWith(trace[i].src, <<".", "J", "P", "E", "G">>)
          /\ trace[i].mode = "RGB"
    /\ \E i \in OkIndexes :
          /\ EndsWith(trace[i].src, <<".", "P", "N", "G">>)
          /\ trace[i].mode = "RGBA"

\* e is the extension of the file name b and n what stands before it: e starts
\* at the last dot of b, a dot that is not the first character of b; a name
\* without such a dot has no extension
IsNameAndExt(b, n, e) ==
    /\ n \o e = b
    /\ \A k \in 2..Len(e) : e[k] # "."
    /\ IF \E k \in 2..Len(b) : b[k] = "."
       THEN e # <<>> /\ e[1] = "." /\ n # <<>>
       ELSE e = <<>>

\* the part of the path p after its last slash
FileNameOf(p) ==
    CHOOSE b \in {SubSeq(p, k, Len(p)) : k \in 1..(Len(p) + 1)} :
        /\ \A k \in 1..Len(b) : b[k] # "/"
        /\ Len(b) < Len(p) => p[Len(p) - Len(b)] = "/"

\* the splits of a file name into two parts
SplitsOf(b) == {<<SubSeq(b, 1, k), SubSeq(b, k + 1, Len(b))>> : k \in 0..Len(b)}

\* C11: the output file name is derived from the source basename split into
\* name and extension: rule keep gives name+ext, rule prefix gives
\* prefix+name+ext, rule suffix gives name+suffix+ext, in the export folder;
\* the extension is kept as in the source, letter case included.
C11_NameFromRule ==
    \A i \in OkIndexes :
        \E ne \in SplitsOf(FileNameOf(trace[i].src)) :
            /\ IsNameAndExt(FileNameOf(trace[i].src), ne[1], ne[2])
            /\ trace[i].out_path =
                   output_folder \o <<"/">> \o
                   (CASE naming_combo = "keep"   -> ne[1] \o ne[2]
                      [] naming_combo = "prefix" -> naming_input \o ne[1] \o ne[2]
                      [] naming_combo = "suffix" -> ne[1] \o naming_input \o ne[2])

\* the upper-case source /a/z.JPEG was written with prefix wm_ as wm_z.JPEG
C11_Witness ==
    /\ naming_combo = "prefix"
    /\ naming_input = <<"w", "m", "_">>
    /\ \E i \in OkIndexes :
          /\ trace[i].src = <<"/", "a", "/", "z", ".", "J", "P", "E", "G">>
          /\ trace[i].out_path =
                 output_folder \o <<"/", "w", "m", "_", "z", ".", "J", "P", "E", "G">>

(***************************************************************************)
(* Claims on the image list.                                               *)
(***************************************************************************)
\* C13: after any sequence of the list operations (add_files/_add_image,
\* clear_list, on_item_clicked, update_preview, load_current_image),
\* current_index is either None or a valid index into image_paths:
\* 0 <= current_index < len(image_paths).
C13_CurrentIndexValid ==
    \/ current_index = <<>>
    \/ /\ 0 <= current_index[1]
       /\ current_index[1] < Len(image_paths)

(***************************************************************************)
(* Claims on text placement, colour parsing and watermark scaling.         *)
(***************************************************************************)
\* the text box at text_xy lies inside the canvas
BoxInside ==
    /\ 0 <= text_xy[1]
    /\ text_xy[1] + txt_size[1] <= base_size[1]
    /\ 0 <= text_xy[2]
    /\ text_xy[2] + txt_size[2] <= base_size[2]

PlacedAtAnchor ==
    /\ phase = "app"
    /\ template.position \in pos_keys
    /\ template.offset = <<0, 0>>

\* C5 as stated: for each of the nine anchors and every box that fits in the
\* canvas, the position computed with zero offset keeps the box inside the canvas.
C5_FitsStaysInside ==
    (/\ PlacedAtAnchor
     /\ txt_size[1] <= base_size[1]
     /\ txt_size[2] <= base_size[2])
        => BoxInside

\* C5, amended: for each of the nine anchors and every box that fits in the
\* canvas with the margin to spare (box_w + margin <= canvas_w and
\* box_h + margin <= canvas_h), the position computed with zero offset keeps
\* the box inside the canvas.
C5_FitsWithMarginStaysInside ==
    (/\ PlacedAtAnchor
     /\ txt_size[1] + margin <= base_size[1]
     /\ txt_size[2] + margin <= base_size[2])
        => BoxInside

\* a box that leaves exactly the margin was placed at bottom-right, at the origin
C5_Witness ==
    /\ PlacedAtAnchor
    /\ template.position = "bottom-right"
    /\ base_size = <<12, 11>>
    /\ txt_size = <<2, 1>>
    /\ text_xy = <<0, 0>>

\* C6 as stated: an anchor that is none of the nine places the text at
\* bottom-right, (canvas_w - box_w - margin, canvas_h - box_h - margin), before
\* the offset is added.
C6_UnknownIsBottomRight ==
    (phase = "app" /\ template.position \notin pos_keys)
        => text_xy = <<base_size[1] - txt_size[1] - margin + template.offset[1],
                       base_size[2] - txt_size[2] - margin + template.offset[2]>>

\* C6, amended: in apply_watermark_to_pil an anchor that is none of the nine
\* places the text at (0, 0) before the offset is added; the bottom-right
\* fallback is that of add_watermark in main.py, for a position that is
\* neither left_top nor center.
C6_UnknownIsOrigin ==
    /\ (phase = "app" /\ template.position \notin pos_keys)
           => text_xy = <<0 + template.offset[1], 0 + template.offset[2]>>
    /\ (phase = "cli" /\ position \notin {"left_top", "center"})
           => pos = <<base_size[1] - txt_size[1] - 10, base_size[2] - txt_size[2] - 10>>

\* the anchor 'custom' was placed on a canvas whose bottom-right is elsewhere
C6_Witness ==
    /\ phase = "app"
    /\ template.position = "custom"
    /\ base_size = <<12, 12>>
    /\ txt_size = <<1, 1>>
    /\ text_xy = <<0, 0>>

\* the string has the form #RRGGBB or RRGGBB
ValidColor(c) ==
    \/ Len(c) = 6 /\ \A i \in 1..6 : c[i] \in HexDigits
    \/ Len(c) = 7 /\ c[1] = "#" /\ \A i \in 2..7 : c[i] \in HexDigits

\* the triple a valid string names
ExactRGB(c) ==
    LET t == IF Len(c) = 7 THEN Tail(c) ELSE c
    IN  <<16 * HexVal(t[1]) + HexVal(t[2]),
          16 * HexVal(t[3]) + HexVal(t[4]),
          16 * HexVal(t[5]) + HexVal(t[6])>>

\* C7: colour parsing gives the exact (R, G, B) of every string of the form
\* #RRGGBB or RRGGBB, and white (255, 255, 255) for every other string.
C7_ParseColorExactOrWhite ==
    phase = "app"
        => SubSeq(col, 1, 3) = IF ValidColor(template.color)
                               THEN ExactRGB(template.color)
                               ELSE <<255, 255, 255>>

\* C8: the image watermark is never resampled to a zero-size target: when the
\* scaled width or height is <= 0 the target is 25% of the canvas, and both
\* dimensions handed to the resample are > 0.
C8_ResampleTargetPositive ==
    (phase = "app" /\ template.image_watermark # "")
        => /\ wm_target[1] > 0
           /\ wm_target[2] > 0
           /\ (\/ (wm_size[1] * img_scale_slider) \div 100 <= 0
               \/ (wm_size[2] * img_scale_slider) \div 100 <= 0)
                 => wm_target = <<base_size[1] \div 4, base_size[2] \div 4>>

\* the configured watermark image could not be loaded or processed
WmUnusable ==
    /\ template.image_watermark # ""
    /\ \/ wm_outcome # "ok"
       \/ wm_target[1] <= 0
       \/ wm_target[2] <= 0

\* C12: when the configured watermark image cannot be loaded or processed,
\* apply_watermark_to_pil still returns a result for the base image: the image
\* watermark is omitted, the text watermark already drawn is kept, and no
\* error reaches the caller.
C12_WatermarkFailureOmitsImage ==
    (phase = "app" /\ WmUnusable)
        => /\ ~out.raised
           /\ out.layers = <<"base", "text">>

\* the watermark file did not open and the base image came back with its text
C12_Witness ==
    /\ phase = "app"
    /\ template.image_watermark # ""
    /\ wm_outcome = "open_error"
    /\ wm_target = <<>>
    /\ out = [raised |-> FALSE, layers |-> <<"base", "text">>]

(***************************************************************************)
(* Claims on loading a template.                                           *)
(***************************************************************************)
\* the configuration, field by field (image_scale in hundredths)
Config ==
    [text |-> input_text, font_size |-> size_spin, color |-> template.color,
     opacity |-> opacity_slider, shadow |-> shadow_cb,
     position |-> template.position, image_scale |-> img_scale_slider,
     image_opacity |-> img_opacity_slider]

\* the documented defaults
DocumentedDefault ==
    [text |-> "", font_size |-> 36, color |-> White, opacity |-> 70, shadow |-> TRUE,
     position |-> "center", image_scale |-> 25, image_opacity |-> 80]

\* C10: after a document is loaded, every field missing from it has its
\* documented default and every field present in it has the document's value,
\* whatever the configuration was before.
C10_LoadSetsEveryField ==
    phase = "loaded"
        => \A f \in DOMAIN DocumentedDefault :
              Config[f] = IF f \in data.has THEN data.val[f] ELSE DocumentedDefault[f]

====
